---- MODULE Spec2Model ----
(***************************************************************************)
(* The migration engine of goose (lib/goose/migrate.go): the version       *)
(* ledger goose_db_version, current-version resolution (EnsureDBVersion),  *)
(* per-migration status (getMigrationsStatus) and the planner/applicator   *)
(* RunMigrationsOnDb.                                                      *)
(***************************************************************************)
EXTENDS Integers, Sequences, FiniteSets, TLC

VARIABLES
    tableExists,   \* the goose_db_version table exists in the database
    ledger,        \* rows of goose_db_version in insertion (id) order
    clock,         \* the database clock that stamps inserted rows
    run,           \* the invocation of RunMigrationsOnDb in progress
    log,           \* completed invocations, oldest first
    out,           \* result of a direct call of a reader or of discovery
    effects,       \* the units whose Up section is in effect in the database
    txn,           \* the open transaction: what it holds uncommitted
    files          \* the part of the file system a call reads: the files of a
                   \* migrations directory in Walk order, or the directories
                   \* searched for a configuration file, or the keys of the
                   \* configuration file

vars == <<tableExists, ledger, clock, run, log, out, effects, txn, files>>

----------------------------------------------------------------------------
(* Bounds of the model *)

MaxVersion == 3    \* migration files carry versions 1..MaxVersion
MaxRuns == 3       \* invocations of RunMigrationsOnDb in one behaviour
MaxClock == 2      \* distinct values of the database clock
MaxRows == 3       \* rows of a ledger given directly to the readers
MaxRowVersion == 2 \* versions 0..MaxRowVersion in such a ledger
MaxTxnRuns == 2    \* invocations followed statement by statement
MaxPrefix == 2     \* numeric prefixes -1..MaxPrefix of file names
MaxFiles == 3      \* files of a migrations directory
MaxProcs == 2      \* invocations that run against one database at a time
MaxDepth == 2      \* depth of the start directory of findDBConf below the root
MaxScoped == 2     \* keys an environment overrides in a configuration file
MaxEntries == 2    \* entries the walk of GetPreviousDBVersion visits

\* versions that include 0
VersionsFromZero == 0..MaxVersion

\* the versions NumericComponent accepts
Versions == 1..MaxVersion
Targets == (0 - 1)..MaxVersion

\* the extension of the file of each unit: the unit with the highest version
\* is a .go file, the others are .sql files
GoUnits == {MaxVersion}
SqlUnits == Versions \ GoUnits

DirectionUp == TRUE
DirectionDown == FALSE

ZeroTime == 0      \* the zero time.Time of a fresh Migration

Idle == [pc |-> "idle"]
NoOut == [kind |-> "none"]
NoTxn == [kind |-> "none"]

----------------------------------------------------------------------------
(* Helpers on sequences and sets *)

Reverse(s) == [i \in 1..Len(s) |-> s[Len(s) + 1 - i]]

Range(s) == {s[i] : i \in 1..Len(s)}

SetMin(S) == CHOOSE x \in S : \A y \in S : x <= y

SetMax(S) == CHOOSE x \in S : \A y \in S : x >= y

\* sort.Sort(ms): ascending by Version
RECURSIVE SortAsc(_)
SortAsc(S) == IF S = {} THEN <<>>
              ELSE <<SetMin(S)>> \o SortAsc(S \ {SetMin(S)})

\* sort.Sort(sort.Reverse(ms)): descending by Version
RECURSIVE SortDesc(_)
SortDesc(S) == IF S = {} THEN <<>>
               ELSE <<SetMax(S)>> \o SortDesc(S \ {SetMax(S)})

----------------------------------------------------------------------------
(* The dialect: history query and insert statement *)

Row(v, a, t) == [version |-> v, applied |-> a, ts |-> t]

\* dbVersionQuery: the rows ordered by id descending (most recent insert first)
dbVersionQuery(l) == Reverse(l)

\* insertVersionSql: one row (version, is_applied), tstamp defaulted to now
insertVersion(l, v, a, now) == Append(l, Row(v, a, now))

----------------------------------------------------------------------------
(* EnsureDBVersion: the scan of the rows, newest first *)

RECURSIVE ScanVersion(_, _, _)
ScanVersion(rows, i, toSkip) ==
    IF i > Len(rows) THEN [kind |-> "panic"]
    ELSE IF rows[i].version \in toSkip THEN ScanVersion(rows, i + 1, toSkip)
    ELSE IF rows[i].applied THEN [kind |-> "ok", version |-> rows[i].version]
    ELSE ScanVersion(rows, i + 1, toSkip \cup {rows[i].version})

\* a scan that forgets toSkip: the first applied row decides
RECURSIVE ScanVersionNoSkip(_, _)
ScanVersionNoSkip(rows, i) ==
    IF i > Len(rows) THEN [kind |-> "panic"]
    ELSE IF rows[i].applied THEN [kind |-> "ok", version |-> rows[i].version]
    ELSE ScanVersionNoSkip(rows, i + 1)

EnsureDBVersionNoSkip(rows) == ScanVersionNoSkip(rows, 1)

\* a resolution that returns the highest version whose newest row is applied
EnsureDBVersionHighest(rows) ==
    LET heads == {i \in 1..Len(rows) :
                     /\ rows[i].applied
                     /\ \A j \in 1..(i - 1) : rows[j].version # rows[i].version}
    IN  IF heads = {} THEN [kind |-> "panic"]
        ELSE [kind |-> "ok",
              version |-> SetMax({rows[i].version : i \in heads})]

\* a resolution that falls back to version 0 when the scan finds no applied
\* version
EnsureDBVersionFallsBack(rows) ==
    LET found == ScanVersion(rows, 1, {})
    IN  IF found.kind = "panic" THEN [kind |-> "ok", version |-> 0] ELSE found

EnsureDBVersion(rows) == ScanVersion(rows, 1, {})

----------------------------------------------------------------------------
(* getMigrationsStatus: per-migration IsApplied and TStamp *)

\* a scan that ignores TStamp: the row scanned last decides
ScanRowLastWins(mm, row) ==
    IF row.version \notin DOMAIN mm THEN mm
    ELSE [mm EXCEPT ![row.version] = [IsApplied |-> row.applied, TStamp |-> row.ts]]

\* a scan in which a row that is not older than the one kept replaces it
ScanRowNotBefore(mm, row) ==
    IF row.version \notin DOMAIN mm THEN mm
    ELSE IF ~(row.ts >= mm[row.version].TStamp) THEN mm
    ELSE [mm EXCEPT ![row.version] = [IsApplied |-> row.applied, TStamp |-> row.ts]]

\* rows.Scan of one row into the map mm of the discovered migrations
ScanRow(mm, row) ==
    IF row.version \notin DOMAIN mm THEN mm
    ELSE IF ~(row.ts > mm[row.version].TStamp) THEN mm
    ELSE [mm EXCEPT ![row.version] = [IsApplied |-> row.applied, TStamp |-> row.ts]]

RECURSIVE ScanStatus(_, _, _)
ScanStatus(rows, i, mm) ==
    IF i > Len(rows) THEN mm
    ELSE ScanStatus(rows, i + 1, ScanRow(mm, rows[i]))

\* migrations that default to applied when the ledger does not know them
FreshMigrationsApplied(migrations) ==
    [v \in migrations |-> [IsApplied |-> TRUE, TStamp |-> ZeroTime]]

\* migrations: the set of discovered versions, each a fresh Migration
FreshMigrations(migrations) ==
    [v \in migrations |-> [IsApplied |-> FALSE, TStamp |-> ZeroTime]]

\* a getMigrationsStatus that does not read the ledger
getMigrationsStatusUnread(exists, rows, migrations) ==
    FreshMigrations(migrations)

getMigrationsStatus(exists, rows, migrations) ==
    IF ~exists THEN FreshMigrations(migrations)
    ELSE ScanStatus(rows, 1, FreshMigrations(migrations))

----------------------------------------------------------------------------
(* RunMigrationsOnDb: direction and needed migrations *)

\* a comparison that also goes down when the target is the current version
DirectionNonStrict(target, current) ==
    IF target <= current THEN DirectionDown ELSE DirectionUp

Direction(target, current) ==
    IF target < current THEN DirectionDown ELSE DirectionUp

\* a filter that leaves the target version itself out when going down
NeededDownExclusive(direction, target, mm) ==
    IF direction = DirectionUp
    THEN {v \in DOMAIN mm : ~(v > target) /\ ~mm[v].IsApplied}
    ELSE {v \in DOMAIN mm : v > target /\ mm[v].IsApplied}

\* a filter that forgets IsApplied when going up
NeededUpAll(direction, target, mm) ==
    IF direction = DirectionUp
    THEN {v \in DOMAIN mm : ~(v > target)}
    ELSE {v \in DOMAIN mm : ~(v < target) /\ mm[v].IsApplied}

\* an UP filter that stops below the target
NeededUpExclusive(direction, target, mm) ==
    IF direction = DirectionUp
    THEN {v \in DOMAIN mm : v < target /\ ~mm[v].IsApplied}
    ELSE {v \in DOMAIN mm : ~(v < target) /\ mm[v].IsApplied}

\* a filter that forgets the target
NeededAnyVersion(direction, target, mm) ==
    IF direction = DirectionUp
    THEN {v \in DOMAIN mm : ~mm[v].IsApplied}
    ELSE {v \in DOMAIN mm : mm[v].IsApplied}

Needed(direction, target, mm) ==
    IF direction = DirectionUp
    THEN {v \in DOMAIN mm : ~(v > target) /\ ~mm[v].IsApplied}
    ELSE {v \in DOMAIN mm : ~(v < target) /\ mm[v].IsApplied}

\* a sort that always sorts ascending
SortNeededAscending(direction, needed) == SortAsc(needed)

\* a sort that always sorts descending
SortNeededDescending(direction, needed) == SortDesc(needed)

SortNeeded(direction, needed) ==
    IF direction = DirectionUp THEN SortAsc(needed) ELSE SortDesc(needed)

----------------------------------------------------------------------------
(* The state machine *)

Init ==
    /\ tableExists = FALSE
    /\ ledger = <<>>
    /\ clock = 1
    /\ run = Idle
    /\ log = <<>>
    /\ out = NoOut
    /\ effects = {}
    /\ txn = NoTxn
    /\ files = <<>>

\* the values now() can take: the database clock never runs backwards
Nows == clock..MaxClock

\* what a completed invocation leaves in the log
Summary(r, n, err) ==
    [target |-> r.target, D |-> r.D, current |-> r.current,
     direction |-> r.direction, plan |-> r.plan, base |-> r.base,
     nexec |-> n, err |-> err]

\* createVersionTable: the table and the row (0, applied), in one transaction
createVersionTable(now) == insertVersion(<<>>, 0, TRUE, now)

\* GetMostRecentDBVersion(dirpath) on a directory whose files resolve to the
\* versions D: the greatest of them, starting from -1; an error when none
GetMostRecentDBVersion(D) ==
    LET version == SetMax(D \cup {0 - 1})
    IN  IF version = 0 - 1 THEN [err |-> "no valid version found", version |-> version]
        ELSE [err |-> "none", version |-> version]

\* RunMigrationsOnDb after EnsureDBVersion returned current: CollectMigrations
\* (the discovered versions D), getMigrationsStatus on the ledger l, the
\* direction and the sorted needed migrations
Planned(D, target, current, l) ==
    LET mm == getMigrationsStatus(TRUE, dbVersionQuery(l), D)
        direction == Direction(target, current)
        ms == SortNeeded(direction, Needed(direction, target, mm))
    IN  [pc |-> "applying", target |-> target, D |-> D,
         current |-> current, direction |-> direction,
         plan |-> ms, base |-> Len(l), idx |-> 0]

\* RunMigrationsOnDb up to the first unit: EnsureDBVersion (creating the
\* version table when it is missing), CollectMigrations, getMigrationsStatus,
\* the direction and the sorted needed migrations.
Begin(D, target, now) ==
    /\ run.pc = "idle"
    /\ Len(log) < MaxRuns
    /\ tableExists => now = clock
    /\ LET seeded == IF tableExists THEN ledger ELSE createVersionTable(now)
           found == IF tableExists THEN EnsureDBVersion(dbVersionQuery(ledger))
                    ELSE [kind |-> "ok", version |-> 0]
       IN  /\ tableExists' = TRUE
           /\ ledger' = seeded
           /\ clock' = now
           /\ IF found.kind = "panic"
              THEN /\ run' = [pc |-> "panic"]
                   /\ log' = log
              ELSE LET r == Planned(D, target, found.version, seeded)
                   IN  IF Len(r.plan) = 0
                       THEN /\ run' = Idle
                            /\ log' = Append(log, Summary(r, 0, "none"))
                       ELSE /\ run' = r
                            /\ log' = log
    /\ UNCHANGED <<out, effects, txn, files>>

\* RunMigrationsOnDb when CollectMigrations finds two files of one version:
\* EnsureDBVersion has run (creating the version table when it is missing),
\* then log.Fatalf ends the process
DiscoveryFatal(now) ==
    /\ run.pc = "idle"
    /\ Len(log) < MaxRuns
    /\ tableExists => now = clock
    /\ LET seeded == IF tableExists THEN ledger ELSE createVersionTable(now)
           found == IF tableExists THEN EnsureDBVersion(dbVersionQuery(ledger))
                    ELSE [kind |-> "ok", version |-> 0]
       IN  /\ tableExists' = TRUE
           /\ ledger' = seeded
           /\ clock' = now
           /\ IF found.kind = "panic"
              THEN /\ run' = [pc |-> "panic"]
                   /\ log' = log
              ELSE /\ run' = Idle
                   /\ log' = Append(log, [err |-> "discovery", queried |-> TRUE,
                                          created |-> ~tableExists,
                                          base |-> Len(seeded)])
    /\ UNCHANGED <<out, effects, txn, files>>

\* EnsureDBVersion when createVersionTable fails: the transaction is rolled
\* back and RunMigrationsOnDb returns the error
BootstrapFail ==
    /\ run.pc = "idle"
    /\ ~tableExists
    /\ Len(log) < MaxRuns
    /\ log' = Append(log, [err |-> "bootstrap"])
    /\ UNCHANGED <<tableExists, ledger, clock, run, out, effects, txn, files>>

\* the section of a unit's script that matches the direction takes effect
Effect(e, v, direction) ==
    IF direction = DirectionUp THEN e \cup {v} ELSE e \ {v}

\* a FinalizeMigration that records a revert by editing the unit's most recent
\* record instead of inserting a new one
ApplyUnitEditsRecord(now) ==
    /\ run.pc = "applying"
    /\ LET v == run.plan[run.idx + 1]
           recs == {i \in 1..Len(ledger) : ledger[i].version = v}
       IN  /\ ledger' = IF run.direction = DirectionDown /\ recs # {}
                        THEN [ledger EXCEPT ![SetMax(recs)] = Row(v, FALSE, now)]
                        ELSE insertVersion(ledger, v, run.direction, now)
           /\ clock' = now
           /\ IF run.idx + 1 = Len(run.plan)
              THEN /\ run' = Idle
                   /\ log' = Append(log, Summary(run, run.idx + 1, "none"))
              ELSE /\ run' = [run EXCEPT !.idx = run.idx + 1]
                   /\ log' = log
           /\ effects' = Effect(effects, v, run.direction)
    /\ UNCHANGED <<tableExists, out, txn, files>>

\* a FinalizeMigration that records every unit as applied
ApplyUnitFlagTrue(now) ==
    /\ run.pc = "applying"
    /\ LET v == run.plan[run.idx + 1]
       IN  /\ ledger' = insertVersion(ledger, v, TRUE, now)
           /\ clock' = now
           /\ IF run.idx + 1 = Len(run.plan)
              THEN /\ run' = Idle
                   /\ log' = Append(log, Summary(run, run.idx + 1, "none"))
              ELSE /\ run' = [run EXCEPT !.idx = run.idx + 1]
                   /\ log' = log
           /\ effects' = Effect(effects, v, run.direction)
    /\ UNCHANGED <<tableExists, out, txn, files>>

\* the next unit of the plan succeeds: its effect and its ledger row commit
\* together (FinalizeMigration)
ApplyUnit(now) ==
    /\ run.pc = "applying"
    /\ LET v == run.plan[run.idx + 1]
       IN  /\ ledger' = insertVersion(ledger, v, run.direction, now)
           /\ clock' = now
           /\ IF run.idx + 1 = Len(run.plan)
              THEN /\ run' = Idle
                   /\ log' = Append(log, Summary(run, run.idx + 1, "none"))
              ELSE /\ run' = [run EXCEPT !.idx = run.idx + 1]
                   /\ log' = log
           /\ effects' = Effect(effects, v, run.direction)
    /\ UNCHANGED <<tableExists, out, txn, files>>

\* a failing unit that is tried again instead of ending the run
FailUnitRetried ==
    /\ run.pc = "applying"
    /\ run.plan[run.idx + 1] \in SqlUnits
    /\ Len(log) < MaxRuns
    /\ run' = run
    /\ ledger' = ledger
    /\ log' = Append(log, Summary(run, run.idx, "unit"))
    /\ UNCHANGED <<tableExists, clock, out, effects, txn, files>>

\* a failing unit whose ledger record is written all the same
FailUnitRecorded ==
    /\ run.pc = "applying"
    /\ run.plan[run.idx + 1] \in SqlUnits
    /\ run' = Idle
    /\ ledger' = insertVersion(ledger, run.plan[run.idx + 1], run.direction, clock)
    /\ log' = Append(log, Summary(run, run.idx, "unit"))
    /\ UNCHANGED <<tableExists, clock, out, effects, txn, files>>

\* the next unit of the plan, a .sql unit, fails: its transaction is rolled
\* back and RunMigrationsOnDb returns the error
FailUnit ==
    /\ run.pc = "applying"
    /\ run.plan[run.idx + 1] \in SqlUnits
    /\ run' = Idle
    /\ ledger' = ledger
    /\ log' = Append(log, Summary(run, run.idx, "unit"))
    /\ UNCHANGED <<tableExists, clock, out, effects, txn, files>>

\* the next unit of the plan, a .go unit, fails: runGoMigration ends the
\* process with log.Fatal, RunMigrationsOnDb returns nothing
FatalUnit ==
    /\ run.pc = "applying"
    /\ run.plan[run.idx + 1] \in GoUnits
    /\ run' = Idle
    /\ log' = Append(log, Summary(run, run.idx, "fatal"))
    /\ UNCHANGED <<tableExists, ledger, clock, out, effects, txn, files>>

Next ==
    \/ \E D \in SUBSET Versions, target \in Targets, now \in Nows :
          Begin(D, target, now)
    \/ \E now \in Nows : DiscoveryFatal(now)
    \/ BootstrapFail
    \/ \E now \in Nows : ApplyUnit(now)
    \/ FailUnit
    \/ FatalUnit

Spec == Init /\ [][Next]_vars

----------------------------------------------------------------------------
(* The ledger readers called directly on any ledger table, hand-edited ones *)
(* included: EnsureDBVersion and getMigrationsStatus as functions of rows.  *)

RowVersions == 0..MaxRowVersion

Rows == [version : RowVersions, applied : BOOLEAN, ts : 1..MaxClock]

RECURSIVE SeqsUpTo(_, _)
SeqsUpTo(S, n) ==
    IF n = 0 THEN {<<>>}
    ELSE LET shorter == SeqsUpTo(S, n - 1)
         IN  shorter \cup {Append(q, x) : q \in {r \in shorter : Len(r) = n - 1}, x \in S}

InitLedger ==
    /\ tableExists \in BOOLEAN
    /\ ledger \in SeqsUpTo(Rows, MaxRows)
    /\ ~tableExists => ledger = <<>>
    /\ clock = MaxClock
    /\ run = Idle
    /\ log = <<>>
    /\ out = NoOut
    /\ effects = {}
    /\ txn = NoTxn
    /\ files = <<>>

\* EnsureDBVersion(conf, db)
CallEnsureDBVersion ==
    /\ out = NoOut
    /\ IF tableExists
       THEN /\ out' = EnsureDBVersion(dbVersionQuery(ledger))
            /\ UNCHANGED <<tableExists, ledger>>
       ELSE /\ out' = [kind |-> "ok", version |-> 0]
            /\ tableExists' = TRUE
            /\ ledger' = createVersionTable(clock)
    /\ UNCHANGED <<clock, run, log, effects, txn, files>>

\* getMigrationsStatus(conf, db, migrations)
CallGetMigrationsStatus(D) ==
    /\ out = NoOut
    /\ out' = [kind |-> "status", D |-> D,
               mm |-> getMigrationsStatus(tableExists, dbVersionQuery(ledger), D)]
    /\ UNCHANGED <<tableExists, ledger, clock, run, log, effects, txn, files>>

NextLedger ==
    \/ CallEnsureDBVersion
    \/ \E D \in SUBSET (RowVersions \ {0}) : CallGetMigrationsStatus(D)

SpecLedger == InitLedger /\ [][NextLedger]_vars

(***************************************************************************)
(* The transactions of a run, statement by statement: createVersionTable   *)
(* and, for a .sql unit, runSQLMigration with FinalizeMigration. What a    *)
(* transaction holds is in txn until it commits; a rollback drops it. The  *)
(* directories hold .sql units only.                                       *)
(***************************************************************************)
OpenTxn(kind) == [kind |-> kind, table |-> FALSE, effect |-> FALSE, rows |-> <<>>]

\* RunMigrationsOnDb up to the first statement: with a version table as in
\* Begin; without one, EnsureDBVersion calls createVersionTable, which begins
\* a transaction
TxStart(D, target) ==
    /\ Len(log) < MaxTxnRuns
    /\ txn = NoTxn
    /\ IF tableExists
       THEN Begin(D, target, clock)
       ELSE /\ run.pc = "idle"
            /\ run' = [pc |-> "bootstrap", D |-> D, target |-> target]
            /\ txn' = OpenTxn("bootstrap")
            /\ UNCHANGED <<tableExists, ledger, clock, log, out, effects, files>>

\* createVersionTable: txn.Exec(createVersionTableSql) succeeds
CreateTableExec ==
    /\ run.pc = "bootstrap"
    /\ ~txn.table
    /\ txn' = [txn EXCEPT !.table = TRUE]
    /\ UNCHANGED <<tableExists, ledger, clock, run, log, out, effects, files>>

\* createVersionTable: txn.Exec(insertVersionSql, 0, true) succeeds
InsertSeedExec(now) ==
    /\ run.pc = "bootstrap"
    /\ txn.table
    /\ txn.rows = <<>>
    /\ txn' = [txn EXCEPT !.rows = createVersionTable(now)]
    /\ UNCHANGED <<tableExists, ledger, clock, run, log, out, effects, files>>

\* a createVersionTable whose rollback leaves the created table behind
BootstrapRollbackKeepsTable ==
    /\ run.pc = "bootstrap"
    /\ txn.rows = <<>>
    /\ txn' = NoTxn
    /\ tableExists' = txn.table
    /\ run' = Idle
    /\ log' = Append(log, [err |-> "bootstrap"])
    /\ UNCHANGED <<ledger, clock, out, effects, files>>

\* createVersionTable: creating the table or inserting the seed fails;
\* txn.Rollback() and the error is returned
BootstrapRollback ==
    /\ run.pc = "bootstrap"
    /\ txn.rows = <<>>
    /\ txn' = NoTxn
    /\ tableExists' = tableExists
    /\ run' = Idle
    /\ log' = Append(log, [err |-> "bootstrap"])
    /\ UNCHANGED <<ledger, clock, out, effects, files>>

\* createVersionTable: txn.Commit(); EnsureDBVersion returns 0 and
\* RunMigrationsOnDb goes on to plan
BootstrapCommit ==
    /\ run.pc = "bootstrap"
    /\ txn.table
    /\ txn.rows # <<>>
    /\ tableExists' = TRUE
    /\ ledger' = txn.rows
    /\ clock' = txn.rows[1].ts
    /\ txn' = NoTxn
    /\ LET r == Planned(run.D, run.target, 0, txn.rows)
       IN  IF Len(r.plan) = 0
           THEN /\ run' = Idle
                /\ log' = Append(log, Summary(r, 0, "none"))
           ELSE /\ run' = r
                /\ log' = log
    /\ UNCHANGED <<out, effects, files>>

\* runSQLMigration: db.Begin() and the statements of the unit's section
UnitExec ==
    /\ run.pc = "applying"
    /\ txn = NoTxn
    /\ txn' = [OpenTxn("unit") EXCEPT !.effect = TRUE]
    /\ UNCHANGED <<tableExists, ledger, clock, run, log, out, effects, files>>

\* runSQLMigration: a statement fails; the transaction is rolled back and the
\* run returns the error
UnitExecFails ==
    /\ run.pc = "applying"
    /\ txn = NoTxn
    /\ run' = Idle
    /\ log' = Append(log, Summary(run, run.idx, "unit"))
    /\ UNCHANGED <<tableExists, ledger, clock, out, effects, txn, files>>

\* FinalizeMigration: txn.Exec(insertVersionSql, v, direction) succeeds
FinalizeInsert(now) ==
    /\ run.pc = "applying"
    /\ txn.kind = "unit"
    /\ txn.rows = <<>>
    /\ txn' = [txn EXCEPT !.rows = <<Row(run.plan[run.idx + 1], run.direction, now)>>]
    /\ UNCHANGED <<tableExists, ledger, clock, run, log, out, effects, files>>

\* a FinalizeMigration that commits what the unit did when the insert fails
FinalizeInsertFailsCommits ==
    /\ run.pc = "applying"
    /\ txn.kind = "unit"
    /\ txn.rows = <<>>
    /\ txn' = NoTxn
    /\ effects' = Effect(effects, run.plan[run.idx + 1], run.direction)
    /\ run' = Idle
    /\ log' = Append(log, Summary(run, run.idx, "unit"))
    /\ UNCHANGED <<tableExists, ledger, clock, out, files>>

\* FinalizeMigration: the insert fails; txn.Rollback() and the error is
\* returned
FinalizeInsertFails ==
    /\ run.pc = "applying"
    /\ txn.kind = "unit"
    /\ txn.rows = <<>>
    /\ txn' = NoTxn
    /\ effects' = effects
    /\ run' = Idle
    /\ log' = Append(log, Summary(run, run.idx, "unit"))
    /\ UNCHANGED <<tableExists, ledger, clock, out, files>>

\* FinalizeMigration: txn.Commit(); the unit's effect and its record become
\* visible together and the loop goes on
FinalizeCommit ==
    /\ run.pc = "applying"
    /\ txn.kind = "unit"
    /\ txn.rows # <<>>
    /\ ledger' = ledger \o txn.rows
    /\ effects' = Effect(effects, run.plan[run.idx + 1], run.direction)
    /\ clock' = txn.rows[1].ts
    /\ txn' = NoTxn
    /\ IF run.idx + 1 = Len(run.plan)
       THEN /\ run' = Idle
            /\ log' = Append(log, Summary(run, run.idx + 1, "none"))
       ELSE /\ run' = [run EXCEPT !.idx = run.idx + 1]
            /\ log' = log
    /\ UNCHANGED <<tableExists, out, files>>

NextTxn ==
    \/ \E D \in SUBSET SqlUnits, target \in Targets : TxStart(D, target)
    \/ CreateTableExec
    \/ \E now \in Nows : InsertSeedExec(now)
    \/ BootstrapRollback
    \/ BootstrapCommit
    \/ UnitExec
    \/ UnitExecFails
    \/ \E now \in Nows : FinalizeInsert(now)
    \/ FinalizeInsertFails
    \/ FinalizeCommit

SpecTxn == Init /\ [][NextTxn]_vars

(***************************************************************************)
(* Discovery: CollectMigrations over the files of a directory. A file is   *)
(* its base name in three parts: what stands before the first underscore   *)
(* (or the whole stem when there is none), whether there is an underscore, *)
(* and the extension; desc tells apart files that agree on these.          *)
(***************************************************************************)
Prefixes ==
    {[digits |-> TRUE, n |-> k] : k \in (0 - 1)..MaxPrefix}
        \cup {[digits |-> FALSE, n |-> 0]}

Exts == {".sql", ".go", ".txt"}

Descs == {"a", "b"}

File == [prefix : Prefixes, sep : BOOLEAN, ext : Exts, desc : Descs]

\* the sequences of at most n distinct files
Dirs(n) ==
    UNION {{s \in [1..k -> File] : \A i, j \in 1..k : i # j => s[i] # s[j]} : k \in 0..n}

\* a NumericComponent without the check that the number is greater than zero
NumericComponentAnyNumber(f) ==
    IF f.ext \notin {".go", ".sql"} THEN [err |-> "type", n |-> 0]
    ELSE IF ~f.sep THEN [err |-> "separator", n |-> 0]
    ELSE IF ~f.prefix.digits THEN [err |-> "syntax", n |-> 0]
    ELSE [err |-> "none", n |-> f.prefix.n]

\* NumericComponent(name)
NumericComponent(f) ==
    IF f.ext \notin {".go", ".sql"} THEN [err |-> "type", n |-> 0]
    ELSE IF ~f.sep THEN [err |-> "separator", n |-> 0]
    ELSE IF ~f.prefix.digits THEN [err |-> "syntax", n |-> 0]
    ELSE IF f.prefix.n <= 0 THEN [err |-> "zero", n |-> 0]
    ELSE [err |-> "none", n |-> f.prefix.n]

\* the first entry of m with version v
FirstWith(m, v) == m[SetMin({k \in 1..Len(m) : m[k].Version = v})]

RECURSIVE WalkKeepFirst(_, _, _)
\* a walk that keeps the first file of a version and passes over the others
WalkKeepFirst(fs, i, m) ==
    IF i > Len(fs) THEN [kind |-> "ok", m |-> m]
    ELSE LET r == NumericComponent(fs[i])
         IN  IF r.err # "none" THEN WalkKeepFirst(fs, i + 1, m)
             ELSE IF \E k \in 1..Len(m) : m[k].Version = r.n
                  THEN WalkKeepFirst(fs, i + 1, m)
                  ELSE WalkKeepFirst(fs, i + 1,
                           Append(m, [Version |-> r.n, Source |-> fs[i],
                                      IsApplied |-> FALSE]))

RECURSIVE Walk(_, _, _)
\* the callback of filepath.Walk from file i on, m the migrations so far
Walk(fs, i, m) ==
    IF i > Len(fs) THEN [kind |-> "ok", m |-> m]
    ELSE LET r == NumericComponent(fs[i])
         IN  IF r.err # "none" THEN Walk(fs, i + 1, m)
             ELSE IF \E k \in 1..Len(m) : m[k].Version = r.n
                  THEN [kind |-> "fatal", version |-> r.n,
                        first |-> FirstWith(m, r.n).Source, second |-> fs[i]]
                  ELSE Walk(fs, i + 1,
                           Append(m, [Version |-> r.n, Source |-> fs[i],
                                      IsApplied |-> FALSE]))

\* a CollectMigrations without the check for two files of one version
CollectMigrationsKeepFirst(fs) == WalkKeepFirst(fs, 1, <<>>)

\* CollectMigrations(dirpath)
CollectMigrations(fs) == Walk(fs, 1, <<>>)

InitDiscover ==
    /\ files \in Dirs(MaxFiles)
    /\ tableExists = FALSE
    /\ ledger = <<>>
    /\ clock = 1
    /\ run = Idle
    /\ log = <<>>
    /\ out = NoOut
    /\ effects = {}
    /\ txn = NoTxn

\* CollectMigrations on the directory
CallCollectMigrations ==
    /\ out = NoOut
    /\ out' = CollectMigrations(files)
    /\ UNCHANGED <<tableExists, ledger, clock, run, log, effects, txn, files>>

NextDiscover == CallCollectMigrations

SpecDiscover == InitDiscover /\ [][NextDiscover]_vars

(***************************************************************************)
(* GetPreviousDBVersion: the version before a given one in a migrations    *)
(* directory. Here files holds the entries the walk visits, directories    *)
(* among them, and the version asked about.                                *)
(***************************************************************************)
\* what filepath.Walk visits: a name and whether it is a directory
Entry == [prefix : Prefixes, sep : BOOLEAN, ext : Exts, dir : BOOLEAN]

\* the entries of a directory, in the order of the walk
Walks(n) == UNION {[1..k -> Entry] : k \in 0..n}

\* the versions GetPreviousDBVersion is asked about
GivenVersions == (0 - 1)..(MaxPrefix + 1)

\* a walk function in which the file visited last, of those below the given
\* version, becomes the previous one
VisitPreviousLast(name, version, st) ==
    IF name.dir THEN st
    ELSE LET r == NumericComponent(name)
         IN  IF r.err # "none" THEN st
             ELSE [previous |-> IF r.n < version THEN r.n ELSE st.previous,
                   sawGivenVersion |-> st.sawGivenVersion \/ r.n = version]

\* the walk function of GetPreviousDBVersion on one entry
VisitPrevious(name, version, st) ==
    IF name.dir THEN st
    ELSE LET r == NumericComponent(name)
         IN  IF r.err # "none" THEN st
             ELSE [previous |-> IF r.n > st.previous /\ r.n < version
                                THEN r.n ELSE st.previous,
                   sawGivenVersion |-> st.sawGivenVersion \/ r.n = version]

RECURSIVE WalkPrevious(_, _, _, _)
WalkPrevious(fs, i, version, st) ==
    IF i > Len(fs) THEN st
    ELSE WalkPrevious(fs, i + 1, version, VisitPrevious(fs[i], version, st))

\* GetPreviousDBVersion(dirpath, version)
GetPreviousDBVersion(fs, version) ==
    LET st == WalkPrevious(fs, 1, version,
                           [previous |-> 0 - 1, sawGivenVersion |-> FALSE])
    IN  IF st.previous = 0 - 1
        THEN IF st.sawGivenVersion
             THEN [kind |-> "previous", previous |-> 0, err |-> "none"]
             ELSE [kind |-> "previous", previous |-> 0 - 1,
                   err |-> "ErrNoPreviousVersion"]
        ELSE [kind |-> "previous", previous |-> st.previous, err |-> "none"]

InitPrevious ==
    /\ files \in [entries : Walks(MaxEntries), version : GivenVersions]
    /\ tableExists = FALSE
    /\ ledger = <<>>
    /\ clock = 1
    /\ run = Idle
    /\ log = <<>>
    /\ out = NoOut
    /\ effects = {}
    /\ txn = NoTxn

\* GetPreviousDBVersion on the directory and the version
CallGetPreviousDBVersion ==
    /\ out = NoOut
    /\ out' = GetPreviousDBVersion(files.entries, files.version)
    /\ UNCHANGED <<tableExists, ledger, clock, run, log, effects, txn, files>>

NextPrevious == CallGetPreviousDBVersion

SpecPrevious == InitPrevious /\ [][NextPrevious]_vars

(***************************************************************************)
(* Several invocations of RunMigrationsOnDb against one database, each     *)
(* with its own connection. Nothing in RunMigrationsOnDb takes a lock: an  *)
(* invocation reads the ledger once, before its loop, and every unit is a  *)
(* transaction of its own. Here run holds one record per invocation.       *)
(***************************************************************************)
Procs == 1..MaxProcs

InitRace ==
    /\ tableExists = FALSE
    /\ ledger = <<>>
    /\ clock = 1
    /\ run = [p \in Procs |-> Idle]
    /\ log = <<>>
    /\ out = NoOut
    /\ effects = {}
    /\ txn = NoTxn
    /\ files = <<>>

\* invocation p: RunMigrationsOnDb up to the first unit, as Begin
RaceBegin(p, D, target, now) ==
    /\ run[p].pc = "idle"
    /\ tableExists => now = clock
    /\ LET seeded == IF tableExists THEN ledger ELSE createVersionTable(now)
           found == IF tableExists THEN EnsureDBVersion(dbVersionQuery(ledger))
                    ELSE [kind |-> "ok", version |-> 0]
       IN  /\ tableExists' = TRUE
           /\ ledger' = seeded
           /\ clock' = now
           /\ IF found.kind = "panic"
              THEN run' = [run EXCEPT ![p] = [pc |-> "panic"]]
              ELSE LET r == Planned(D, target, found.version, seeded)
                   IN  run' = [run EXCEPT ![p] =
                                  IF Len(r.plan) = 0
                                  THEN [r EXCEPT !.pc = "done"]
                                  ELSE r]
    /\ UNCHANGED <<log, out, effects, txn, files>>

\* a unit that looks at the ledger again inside its transaction and writes
\* nothing when its version is resolved the way the run wants it
RaceApplyUnitRechecks(p, now) ==
    /\ run[p].pc = "applying"
    /\ LET r == run[p]
           v == r.plan[r.idx + 1]
           recs == {i \in 1..Len(ledger) : ledger[i].version = v}
           applied == recs # {} /\ ledger[SetMax(recs)].applied
           settled == applied = (r.direction = DirectionUp)
       IN  /\ ledger' = IF settled THEN ledger
                        ELSE insertVersion(ledger, v, r.direction, now)
           /\ clock' = IF settled THEN clock ELSE now
           /\ effects' = Effect(effects, v, r.direction)
           /\ run' = [run EXCEPT ![p] =
                         [r EXCEPT !.idx = r.idx + 1,
                                   !.pc = IF r.idx + 1 = Len(r.plan)
                                          THEN "done" ELSE "applying"]]
    /\ UNCHANGED <<tableExists, log, out, txn, files>>

\* invocation p: the next unit of its plan succeeds, as ApplyUnit
RaceApplyUnit(p, now) ==
    /\ run[p].pc = "applying"
    /\ LET r == run[p]
           v == r.plan[r.idx + 1]
       IN  /\ ledger' = insertVersion(ledger, v, r.direction, now)
           /\ clock' = now
           /\ effects' = Effect(effects, v, r.direction)
           /\ run' = [run EXCEPT ![p] =
                         [r EXCEPT !.idx = r.idx + 1,
                                   !.pc = IF r.idx + 1 = Len(r.plan)
                                          THEN "done" ELSE "applying"]]
    /\ UNCHANGED <<tableExists, log, out, txn, files>>

\* invocation p: the next unit of its plan fails, as FailUnit and FatalUnit
RaceFailUnit(p) ==
    /\ run[p].pc = "applying"
    /\ run' = [run EXCEPT ![p] = [run[p] EXCEPT !.pc = "failed"]]
    /\ UNCHANGED <<tableExists, ledger, clock, log, out, effects, txn, files>>

NextRace ==
    \/ \E p \in Procs, D \in SUBSET Versions, target \in Targets, now \in Nows :
          RaceBegin(p, D, target, now)
    \/ \E p \in Procs, now \in Nows : RaceApplyUnit(p, now)
    \/ \E p \in Procs : RaceFailUnit(p)

SpecRace == InitRace /\ [][NextRace]_vars

(***************************************************************************)
(* findDBConf (dbconf.go): the search for the configuration file from a    *)
(* directory up to the root. files holds the directories of the path, the  *)
(* root first and the start directory last; each says which of the four    *)
(* candidate paths exist below it and whether it is itself named db.       *)
(***************************************************************************)
ConfPaths == <<"dbconf.yaml", "dbconf.yml", "db/dbconf.yaml", "db/dbconf.yml">>

ConfDir == [has : SUBSET Range(ConfPaths), db : BOOLEAN]

\* the paths from the root down to a start directory of depth at most n: the
\* root is not named db, and what a directory named db holds is what its
\* parent holds under db/
ConfTrees(n) ==
    UNION {{t \in [1..k -> ConfDir] :
               /\ ~t[1].db
               /\ \A i \in 2..k :
                     t[i].db =>
                         /\ ("dbconf.yaml" \in t[i].has) = ("db/dbconf.yaml" \in t[i - 1].has)
                         /\ ("dbconf.yml" \in t[i].has) = ("db/dbconf.yml" \in t[i - 1].has)}
           : k \in 1..(n + 1)}

\* filepath.Dir on the directories of the path: the root is its own parent
Dir(k) == IF k = 1 THEN 1 ELSE k - 1

NotFound == [kind |-> "conf", found |-> FALSE, dir |-> 0, name |-> ""]

RECURSIVE SearchBelowRoot(_, _)
\* a loop that leaves at the root before looking into it
SearchBelowRoot(tree, dbDir) ==
    IF Dir(dbDir) = dbDir THEN NotFound
    ELSE LET hits == {i \in 1..Len(ConfPaths) : ConfPaths[i] \in tree[dbDir].has}
         IN  IF hits # {}
             THEN [kind |-> "conf", found |-> TRUE, dir |-> dbDir,
                   name |-> ConfPaths[SetMin(hits)]]
             ELSE SearchBelowRoot(tree, Dir(dbDir))

RECURSIVE SearchUp(_, _)
\* the loop of findDBConf at directory dbDir: the first of the paths that
\* exists, else the same in the parent, until the parent is the directory
SearchUp(tree, dbDir) ==
    LET hits == {i \in 1..Len(ConfPaths) : ConfPaths[i] \in tree[dbDir].has}
    IN  IF hits # {}
        THEN [kind |-> "conf", found |-> TRUE, dir |-> dbDir,
              name |-> ConfPaths[SetMin(hits)]]
        ELSE LET nextDir == Dir(dbDir)
             IN  IF nextDir = dbDir THEN NotFound
                 ELSE SearchUp(tree, nextDir)

\* a findDBConf that does not look into the root directory
findDBConfBelowRoot(tree) == SearchBelowRoot(tree, Len(tree))

\* findDBConf(dbDir)
findDBConf(tree) == SearchUp(tree, Len(tree))

InitConf ==
    /\ files \in ConfTrees(MaxDepth)
    /\ tableExists = FALSE
    /\ ledger = <<>>
    /\ clock = 1
    /\ run = Idle
    /\ log = <<>>
    /\ out = NoOut
    /\ effects = {}
    /\ txn = NoTxn

\* findDBConf on the start directory
CallFindDBConf ==
    /\ out = NoOut
    /\ out' = findDBConf(files)
    /\ UNCHANGED <<tableExists, ledger, clock, run, log, effects, txn, files>>

NextConf == CallFindDBConf

SpecConf == InitConf /\ [][NextConf]_vars

(***************************************************************************)
(* NewDBConf (dbconf.go): the settings of a configuration file, top-level  *)
(* and scoped by environment, resolved into a driver. Here files holds the *)
(* environment name and the two groups of keys of the file found.          *)
(***************************************************************************)
\* a key that the file does not have
Absent(v) == [set |-> FALSE, v |-> v]

\* a key with value v
Present(v) == [set |-> TRUE, v |-> v]

\* the values of the driver key: a driver name, with or without the import
\* path in front of it
DriverValues == [prefix : {"", "github.com/myfork/"},
                 base : {"postgres", "PoStGrEs", "redshift", "nodriver"}]

ImportValues == {"", "github.com/custom/pq"}

DialectValues == {"", "sqlite3", "nodialect"}

OpenValues == {"dsn1", "dsn2"}

Options(values, none) == {Absent(none)} \cup {Present(v) : v \in values}

ConfKeys ==
    [driver : Options(DriverValues, [prefix |-> "", base |-> "nodriver"]),
     import : Options(ImportValues, ""),
     dialect : Options(DialectValues, ""),
     open : Options(OpenValues, "")]

\* the keys scoped by the environment agree with the top-level keys except,
\* at most, in two of them
ConfFiles ==
    {c \in [env : {"", "myenv"}, top : ConfKeys, scoped : ConfKeys] :
        Cardinality({k \in {"driver", "import", "dialect", "open"} :
                        c.scoped[k] # c.top[k]}) <= MaxScoped}

\* strings.ToLower on the driver names
ToLower(name) == IF name = "PoStGrEs" THEN "postgres" ELSE name

\* dialectByName(name)
dialectByName(name) ==
    IF name \in {"postgres", "redshift", "mysql", "sqlite3"} THEN name ELSE "nil"

\* a confGet in which the top-level key wins
confGetTopFirst(f, env, name) ==
    IF f.top[name].set THEN [err |-> FALSE, v |-> f.top[name].v]
    ELSE IF env # "" /\ f.scoped[name].set
         THEN [err |-> FALSE, v |-> f.scoped[name].v]
         ELSE [err |-> TRUE, v |-> f.top[name].v]

\* confGet(f, env, name)
confGet(f, env, name) ==
    IF env # "" /\ f.scoped[name].set
    THEN [err |-> FALSE, v |-> f.scoped[name].v]
    ELSE IF ~f.top[name].set THEN [err |-> TRUE, v |-> f.top[name].v]
         ELSE [err |-> FALSE, v |-> f.top[name].v]

\* newDBDriver(name, open)
newDBDriver(name, open) ==
    LET lower == ToLower(name)
        d == [Name |-> name, OpenStr |-> open, Import |-> "", Dialect |-> "nil"]
    IN  IF lower = "postgres"
        THEN [d EXCEPT !.Name = "postgres", !.Import = "github.com/lib/pq",
                       !.Dialect = "postgres"]
        ELSE IF lower = "redshift"
        THEN [d EXCEPT !.Name = "postgres", !.Import = "github.com/lib/pq",
                       !.Dialect = "redshift"]
        ELSE d

\* DBDriver.IsValid()
IsValid(d) == d.Import # "" /\ d.Dialect # "nil"

\* NewDBConf(dbDir, env) on the file f
NewDBConf(f, env) ==
    LET drvKey == confGet(f, env, "driver")
        imprt == IF drvKey.v.prefix # ""
                 THEN drvKey.v.prefix \o drvKey.v.base ELSE ""
        drv == drvKey.v.base
        openKey == confGet(f, env, "open")
        open == IF openKey.err THEN "" ELSE openKey.v
        d0 == newDBDriver(drv, open)
        d1 == IF imprt # "" THEN [d0 EXCEPT !.Import = imprt] ELSE d0
        impKey == confGet(f, env, "import")
        d2 == IF ~impKey.err /\ impKey.v # ""
              THEN [d1 EXCEPT !.Import = impKey.v] ELSE d1
        dialKey == confGet(f, env, "dialect")
        d == IF ~dialKey.err /\ dialKey.v # ""
             THEN [d2 EXCEPT !.Dialect = dialectByName(dialKey.v)] ELSE d2
    IN  IF drvKey.err THEN [kind |-> "dbconf", err |-> "driver"]
        ELSE IF ~IsValid(d) THEN [kind |-> "dbconf", err |-> "invalid"]
        ELSE [kind |-> "dbconf", err |-> "none", Driver |-> d]

InitNewConf ==
    /\ files \in ConfFiles
    /\ tableExists = FALSE
    /\ ledger = <<>>
    /\ clock = 1
    /\ run = Idle
    /\ log = <<>>
    /\ out = NoOut
    /\ effects = {}
    /\ txn = NoTxn

\* NewDBConf on the file and the environment
CallNewDBConf ==
    /\ out = NoOut
    /\ out' = NewDBConf(files, files.env)
    /\ UNCHANGED <<tableExists, ledger, clock, run, log, effects, txn, files>>

NextNewConf == CallNewDBConf

SpecNewConf == InitNewConf /\ [][NextNewConf]_vars

----------------------------------------------------------------------------
(* Properties of the ledger readers (checked under SpecLedger) *)

\* the rows in the order the readers scan them
Scanned == dbVersionQuery(ledger)

\* row i is the most recent record of its version in the scan order
Authoritative(rows, i) == \A j \in 1..(i - 1) : rows[j].version # rows[i].version

\* the applied records that are the most recent of their version
AppliedHeads(rows) ==
    {i \in 1..Len(rows) : rows[i].applied /\ Authoritative(rows, i)}

\* C1: EnsureDBVersion returns the version of the first record, newest first,
\* that is applied and whose version did not occur earlier in the scan: the
\* returned version's most recent record is applied and every version whose
\* most recent record is newer has a reverted most recent record; a history
\* holding only (0, applied) resolves to 0.
C1_FirstAppliedHead ==
    out.kind \in {"ok", "panic"} =>
        LET rows == Scanned
            heads == AppliedHeads(rows)
        IN  /\ heads # {} =>
                  /\ out.kind = "ok"
                  /\ out.version = rows[SetMin(heads)].version
            /\ out.kind = "ok" =>
                  \E i \in heads :
                      /\ rows[i].version = out.version
                      /\ \A j \in 1..(i - 1) :
                             Authoritative(rows, j) => ~rows[j].applied
            /\ (Len(rows) = 1 /\ rows[1].version = 0 /\ rows[1].applied) =>
                  (out.kind = "ok" /\ out.version = 0)

\* C1 witness: the newest record reverts a version, an older applied record
\* of that version is passed over, and a third record decides
C1_Witness ==
    /\ out.kind = "ok"
    /\ Len(Scanned) = 3
    /\ ~Scanned[1].applied
    /\ Scanned[2].version = Scanned[1].version /\ Scanned[2].applied
    /\ Scanned[3].version # Scanned[1].version /\ Scanned[3].applied
    /\ out.version = Scanned[3].version

\* the records of version v in the ledger
RecordsOf(v) == {i \in 1..Len(ledger) : ledger[i].version = v}

\* the records of version v that carry its latest timestamp
LatestOf(v) ==
    {i \in RecordsOf(v) : \A j \in RecordsOf(v) : ledger[j].ts <= ledger[i].ts}

\* C3: getMigrationsStatus sets each discovered unit's IsApplied to the flag of
\* the record of that version with the latest timestamp, in whatever order the
\* records are scanned; a unit without a record, and every unit when the table
\* does not exist, is not applied; records of other versions are ignored.
C3_StatusByLatestTimestamp ==
    out.kind = "status" =>
        /\ DOMAIN out.mm = out.D
        /\ \A v \in out.D :
              IF ~tableExists \/ RecordsOf(v) = {}
              THEN ~out.mm[v].IsApplied
              ELSE \E i \in LatestOf(v) :
                       /\ out.mm[v].IsApplied = ledger[i].applied
                       /\ out.mm[v].TStamp = ledger[i].ts

\* C3 witness: a unit whose record with the latest timestamp is scanned after
\* an older record with the other flag, beside a record of an unknown version
C3_Witness ==
    /\ out.kind = "status"
    /\ tableExists
    /\ \E v \in out.D : \E i, j \in RecordsOf(v) :
          /\ i < j
          /\ ledger[i].ts > ledger[j].ts
          /\ ledger[i].applied # ledger[j].applied
          /\ out.mm[v].IsApplied = ledger[i].applied
    /\ \E k \in 1..Len(ledger) : ledger[k].version \notin out.D

----------------------------------------------------------------------------
(* Properties of RunMigrationsOnDb (checked under Spec) *)

\* the invocations so far, the one in progress last
AllRuns ==
    IF run.pc = "applying"
    THEN Append(log, Summary(run, run.idx, "running"))
    ELSE log

\* the invocations that got past EnsureDBVersion
RunIdx == {i \in 1..Len(AllRuns) : AllRuns[i].err \notin {"bootstrap", "discovery"}}

\* the most recent invocation. Every invocation is the most recent one while it
\* runs and when it ends, and later steps only append to the ledger, so what
\* holds of the most recent invocation in every state holds of every invocation.
Recent == RunIdx \cap {Len(AllRuns)}

\* the ledger EnsureDBVersion and getMigrationsStatus read in invocation e
LedgerAt(e) == SubSeq(ledger, 1, e.base)

\* the ledger when invocation e ended
LedgerAfter(e) == SubSeq(ledger, 1, e.base + e.nexec)

\* the rows invocation e wrote for its units
Written(e) == SubSeq(ledger, e.base + 1, e.base + e.nexec)

\* the position of the most recently inserted record of version v, 0 if none
HeadIdx(l, v) ==
    LET recs == {i \in 1..Len(l) : l[i].version = v}
    IN  IF recs = {} THEN 0 ELSE SetMax(recs)

\* version v's most recent record is applied
Resolved(l, v) == HeadIdx(l, v) > 0 /\ l[HeadIdx(l, v)].applied

\* the versions whose most recent record is applied
AppliedVersions(l) == {v \in 0..MaxVersion : Resolved(l, v)}

\* the discovered units that are applied
AppliedSet(l) == AppliedVersions(l) \ {0}

StrictlyAscending(q) == \A i, j \in 1..Len(q) : i < j => q[i] < q[j]

StrictlyDescending(q) == \A i, j \in 1..Len(q) : i < j => q[i] > q[j]

C4_Direction ==
    \A i \in Recent :
        LET e == AllRuns[i]
            l == LedgerAt(e)
        IN  /\ Resolved(l, e.current)
            /\ \A w \in AppliedVersions(l) : HeadIdx(l, w) <= HeadIdx(l, e.current)
            /\ e.target >= e.current => e.direction = DirectionUp
            /\ e.target < e.current => e.direction = DirectionDown

\* C4 witness: a run down, and a run up whose target is the current version
C4_Witness ==
    /\ \E i \in RunIdx : /\ AllRuns[i].direction = DirectionDown
                         /\ AllRuns[i].target < AllRuns[i].current
    /\ \E i \in Recent : /\ AllRuns[i].direction = DirectionUp
                         /\ AllRuns[i].target = AllRuns[i].current
                         /\ AllRuns[i].current > 0

\* what invocation e wrote is the executed part of its plan, flagged with its
\* direction; all of the plan when the run succeeded
WroteItsPlan(e) ==
    /\ e.nexec <= Len(e.plan)
    /\ e.err = "none" => e.nexec = Len(e.plan)
    /\ Len(ledger) >= e.base + e.nexec
    /\ \A k \in 1..e.nexec :
          /\ Written(e)[k].version = e.plan[k]
          /\ Written(e)[k].applied = e.direction

\* C5: in an UP run the units executed are exactly the discovered units with
\* version <= target whose resolved status is not applied, in strictly
\* ascending order of version.
C5_UpPlan ==
    \A i \in Recent :
        LET e == AllRuns[i]
        IN  e.direction = DirectionUp =>
              /\ Range(e.plan) =
                     {v \in e.D : v <= e.target /\ ~Resolved(LedgerAt(e), v)}
              /\ StrictlyAscending(e.plan)
              /\ WroteItsPlan(e)

\* C5 witness: a successful UP run of two units that leaves out an applied
\* unit lying between them
C5_Witness ==
    \E i \in Recent :
        LET e == AllRuns[i]
        IN  /\ e.direction = DirectionUp /\ e.err = "none"
            /\ Len(e.plan) = 2 /\ e.nexec = 2
            /\ \E v \in e.D : /\ e.plan[1] < v /\ v < e.plan[2]
                                /\ Resolved(LedgerAt(e), v)

\* C6: in a DOWN run the units executed are exactly the discovered units with
\* version >= target, the target included, whose resolved status is applied,
\* in strictly descending order of version.
C6_DownPlan ==
    \A i \in Recent :
        LET e == AllRuns[i]
        IN  e.direction = DirectionDown =>
              /\ Range(e.plan) =
                     {v \in e.D : v >= e.target /\ Resolved(LedgerAt(e), v)}
              /\ StrictlyDescending(e.plan)
              /\ WroteItsPlan(e)

\* C6 witness: a successful DOWN run of two units that reverts the target
\* version itself and leaves an applied unit below the target alone
C6_Witness ==
    \E i \in Recent :
        LET e == AllRuns[i]
        IN  /\ e.direction = DirectionDown /\ e.err = "none"
            /\ Len(e.plan) = 2 /\ e.nexec = 2
            /\ e.plan[2] = e.target
            /\ \E v \in e.D : v < e.target /\ Resolved(LedgerAt(e), v)

\* the invocations before invocation i that got past EnsureDBVersion
Earlier(i) == {j \in RunIdx : j < i}

\* C7 as stated: whenever the target of a run equals the current version
\* resolved at its start, the plan is empty and the run writes no record.
C7_TargetIsCurrent ==
    \A i \in Recent :
        LET e == AllRuns[i]
        IN  e.target = e.current => (e.plan = <<>> /\ e.nexec = 0)

\* C7 amended: whenever the target of a run equals the current version
\* resolved at its start and every earlier run had the same discovered set as
\* this one, the plan is empty and the run writes no record.
C7_TargetIsCurrentSameSet ==
    \A i \in Recent :
        LET e == AllRuns[i]
        IN  (e.target = e.current /\ \A j \in Earlier(i) : AllRuns[j].D = e.D)
                => (e.plan = <<>> /\ e.nexec = 0 /\ Written(e) = <<>>)

\* C7 witness: after a run up and a run down that reverted units, a third run
\* over the same discovered set whose target is the current version
C7_Witness ==
    \E i \in Recent :
        LET e == AllRuns[i]
        IN  /\ i = 3 /\ Earlier(i) = {1, 2}
            /\ \A j \in Earlier(i) : AllRuns[j].D = e.D
            /\ AllRuns[1].nexec >= 2
            /\ AllRuns[2].direction = DirectionDown /\ AllRuns[2].nexec >= 1
            /\ e.target = e.current /\ e.current >= 1
            /\ e.err = "none" /\ e.plan = <<>>

\* C8: after a run to T succeeds, an immediately following run to the same T
\* with the same discovered set has an empty plan and writes no record.
C8_Idempotent ==
    \A i \in Recent :
        (i - 1) \in RunIdx =>
            LET e1 == AllRuns[i - 1]
                e2 == AllRuns[i]
            IN  (e1.err = "none" /\ e2.target = e1.target /\ e2.D = e1.D)
                    => (e2.plan = <<>> /\ e2.nexec = 0)

\* C9: on a fresh database a successful run up to V, a successful run down to
\* 0 and a successful run up to V leave the applied units a single run up to V
\* leaves; after the run down to 0 no discovered unit is applied.
C9_RoundTrip ==
    (/\ Len(log) = 3 /\ run.pc = "idle"
     /\ \A i \in 1..3 : log[i].err = "none"
     /\ log[2].D = log[1].D /\ log[3].D = log[1].D
     /\ log[2].target = 0 /\ log[3].target = log[1].target)
        => /\ AppliedSet(LedgerAfter(log[3])) = AppliedSet(LedgerAfter(log[1]))
           /\ AppliedSet(LedgerAfter(log[2])) \cap log[1].D = {}

\* C9 witness: a round trip in which each of the three runs executes two units
C9_Witness ==
    /\ Len(log) = 3 /\ run.pc = "idle"
    /\ \A i \in 1..3 : log[i].err = "none" /\ log[i].nexec >= 2
    /\ log[2].D = log[1].D /\ log[3].D = log[1].D
    /\ log[2].target = 0 /\ log[3].target = log[1].target
    /\ Cardinality(AppliedSet(ledger)) >= 2

-----------------------------------------------------------------------------
(* Properties of runs that follow one another (checked under Spec) *)

\* units 1, 2, 3 are applied when run e1 starts, e1 runs to 3 without unit 2
\* and e2 runs to 3 with it
ReappearingCase(e1, e2) ==
    /\ AppliedSet(LedgerAt(e1)) = {1, 2, 3}
    /\ e1.D = {1, 3} /\ e1.target = 3
    /\ e2.D = {1, 2, 3} /\ e2.target = 3

\* C11 as stated: from units {1,2,3} all applied, the run to 3 without unit 2
\* writes no record for unit 1 or unit 3, and the following run to 3 with
\* unit 2 back changes unit 2, and only unit 2, from not applied to applied.
C11_ReappearingApplied ==
    \A i \in Recent :
        (i - 1) \in RunIdx =>
            LET e1 == AllRuns[i - 1]
                e2 == AllRuns[i]
            IN  ReappearingCase(e1, e2) =>
                  /\ \A k \in 1..e1.nexec : Written(e1)[k].version \notin {1, 3}
                  /\ ~Resolved(LedgerAt(e2), 2)
                  /\ Resolved(LedgerAfter(e2), 2)
                  /\ \A v \in {1, 3} :
                         Resolved(LedgerAfter(e2), v) <=> Resolved(LedgerAt(e2), v)

\* C11 amended: from units {1,2,3} all applied, the run to 3 without unit 2
\* has an empty plan and writes nothing, and so does the following run to 3
\* with unit 2 back: unit 2 is resolved as applied from its ledger record
\* before and after that run, and units 1, 2, 3 stay applied.
C11_ReappearingUnchanged ==
    \A i \in Recent :
        /\ LET e == AllRuns[i]
           IN  (/\ AppliedSet(LedgerAt(e)) = {1, 2, 3}
                /\ e.D = {1, 3} /\ e.target = 3)
                   => e.plan = <<>> /\ e.direction = DirectionUp
        /\ (i - 1) \in RunIdx =>
            LET e1 == AllRuns[i - 1]
                e2 == AllRuns[i]
            IN  ReappearingCase(e1, e2) =>
                  /\ e1.plan = <<>> /\ e1.nexec = 0
                  /\ e2.plan = <<>> /\ e2.nexec = 0
                  /\ e1.direction = DirectionUp /\ e2.direction = DirectionUp
                  /\ Resolved(LedgerAt(e2), 2)
                  /\ LedgerAfter(e2) = LedgerAt(e1)
                  /\ AppliedSet(LedgerAfter(e2)) = {1, 2, 3}

\* C11 witness: a first run applies units 1, 2, 3, the second runs to 3
\* without unit 2 and the third runs to 3 with it
C11_Witness ==
    /\ Len(log) = 3 /\ run.pc = "idle"
    /\ log[1].err = "none" /\ log[1].nexec = 3
    /\ log[2].err = "none" /\ log[3].err = "none"
    /\ ReappearingCase(log[2], log[3])
    /\ AppliedSet(ledger) = {1, 2, 3}

-----------------------------------------------------------------------------
(* Properties of failing units and of the records written (checked under   *)
(* Spec)                                                                   *)

\* invocation e ended at a unit that failed
Failed(e) == e.err \in {"unit", "fatal"}

\* C12 as stated: when a unit of a plan fails, the units before it in plan
\* order are committed with their records, the failing unit and every later
\* unit get no record, and RunMigrationsOnDb returns an error for the unit.
C12_FailureStops ==
    \A i \in Recent :
        LET e == AllRuns[i]
        IN  Failed(e) =>
              /\ e.nexec < Len(e.plan)
              /\ Len(ledger) = e.base + e.nexec
              /\ \A k \in 1..e.nexec :
                    /\ ledger[e.base + k].version = e.plan[k]
                    /\ ledger[e.base + k].applied = e.direction
              /\ e.err = "unit"

-----------------------------------------------------------------------------
(* Properties of the transactions (checked under SpecTxn) *)

\* C13: what a .sql unit did and its ledger record are committed together or
\* not at all: in every state the units in effect are the units whose most
\* recent committed record is applied; the record is inserted in the
\* transaction that holds the unit's statements; and when a unit has failed,
\* its statements or its insert, nothing of its transaction remains.
C13_Atomic ==
    /\ effects = AppliedSet(ledger)
    /\ txn.kind = "unit" =>
          /\ txn.effect
          /\ Len(txn.rows) <= 1
          /\ \A k \in 1..Len(txn.rows) :
                txn.rows[k].version = run.plan[run.idx + 1]
    /\ \A i \in Recent :
          LET e == AllRuns[i]
          IN  e.err = "unit" =>
                /\ txn = NoTxn
                /\ Len(ledger) = e.base + e.nexec
                /\ effects = AppliedSet(LedgerAfter(e))

\* C13 witness: a DOWN run has committed the revert of one unit and holds the
\* statements and the record of the next one in an open transaction
C13_Witness ==
    /\ run.pc = "applying"
    /\ run.direction = DirectionDown
    /\ run.idx = 1
    /\ txn.kind = "unit" /\ txn.effect /\ Len(txn.rows) = 1
    /\ run.plan[1] \notin effects
    /\ run.plan[2] \in effects
    /\ ~ledger[Len(ledger)].applied

\* this step is the success of the next unit of the plan
UnitSucceeds ==
    /\ run.pc = "applying"
    /\ \/ run'.pc = "applying" /\ run'.idx = run.idx + 1
       \/ run'.pc = "idle" /\ log'[Len(log')].err = "none"

\* this step is the bootstrap of the ledger table with its seed record
Bootstraps == ~tableExists /\ tableExists' /\ Len(ledger') = 1

\* C14: the success of a unit appends exactly one ledger record, with the
\* version of the unit and the direction of the run as applied flag (true in
\* an UP run, false in a DOWN run); no other step of a run writes a unit's
\* record, and a run that has ended has written one record per unit that
\* succeeded, none for the unit that failed or the units not attempted.
C14_OneRecordPerUnit ==
    /\ [][IF UnitSucceeds
          THEN /\ ledger' = Append(ledger, ledger'[Len(ledger')])
               /\ ledger'[Len(ledger')].version = run.plan[run.idx + 1]
               /\ ledger'[Len(ledger')].applied = (run.direction = DirectionUp)
          ELSE ledger' = ledger \/ Bootstraps]_vars
    /\ [](\A i \in Recent :
             LET e == AllRuns[i]
             IN  /\ Len(ledger) = e.base + e.nexec
                 /\ e.nexec <= Len(e.plan)
                 /\ Failed(e) => e.nexec < Len(e.plan))

\* C14 witness: a DOWN run over three units has reverted the first, failed at
\* the second and not attempted the third
C14_Witness ==
    \E i \in Recent :
        LET e == AllRuns[i]
        IN  /\ e.err = "unit"
            /\ e.direction = DirectionDown
            /\ Len(e.plan) = 3 /\ e.nexec = 1
            /\ Len(ledger) = e.base + 1
            /\ ledger[Len(ledger)].version = e.plan[1]
            /\ ~ledger[Len(ledger)].applied

\* C15: the ledger is append-only: every step of a bootstrap, an UP run, a
\* DOWN run or a failing run leaves the ledger it found as a prefix of the
\* ledger it leaves, so no record is modified or deleted and a revert is a new
\* record.
C15_AppendOnly ==
    [][/\ Len(ledger') >= Len(ledger)
       /\ \A k \in 1..Len(ledger) : ledger'[k] = ledger[k]]_vars

\* C15 witness: after a failed run the ledger holds the seed, the applied
\* record of a unit and, later, the record of its revert
C15_Witness ==
    /\ \E k \in 1..Len(log) : log[k].err \in {"unit", "fatal"}
    /\ ledger[1] = Row(0, TRUE, ledger[1].ts)
    /\ \E i, j \in 2..Len(ledger) :
          /\ i < j
          /\ ledger[i].version = ledger[j].version
          /\ ledger[i].applied
          /\ ~ledger[j].applied

\* C16: without a ledger table EnsureDBVersion creates the table and inserts
\* the seed record (0, applied) in one transaction and returns version 0, the
\* run going on from there; when creating the table or inserting the seed
\* fails, neither the table nor the seed remains and the run ends with the
\* error.
C16_Bootstrap ==
    /\ tableExists =>
          /\ Len(ledger) >= 1
          /\ ledger[1].version = 0 /\ ledger[1].applied
    /\ ~tableExists => ledger = <<>>
    /\ run.pc = "bootstrap" => ~tableExists /\ txn.kind = "bootstrap"
    /\ \A i \in 1..Len(AllRuns) :
          IF \A j \in 1..(i - 1) : AllRuns[j].err = "bootstrap"
          THEN \/ AllRuns[i].err = "bootstrap"
               \/ AllRuns[i].current = 0 /\ AllRuns[i].base = 1
          ELSE AllRuns[i].err # "bootstrap"
    /\ (run.pc = "idle" /\ Len(log) >= 1 /\ log[Len(log)].err = "bootstrap") =>
          ~tableExists /\ txn = NoTxn

\* C16 witness: a first invocation fails in the bootstrap after the table was
\* created in its transaction, a second one commits table and seed and runs on
\* from version 0
C16_Witness ==
    /\ Len(AllRuns) = 2
    /\ AllRuns[1].err = "bootstrap"
    /\ AllRuns[2].err # "bootstrap"
    /\ AllRuns[2].current = 0 /\ AllRuns[2].base = 1
    /\ tableExists
    /\ Len(ledger) >= 2

-----------------------------------------------------------------------------
(* Ledger corruption (checked under SpecLedger) *)

\* C17: when the ledger table exists and no version has a most recent record
\* that is applied, the empty table included, EnsureDBVersion panics and
\* returns no version; it panics in no other case.
C17_CorruptLedgerPanics ==
    out.kind \in {"ok", "panic"} =>
        /\ AppliedVersions(ledger) = {} => out.kind = "panic"
        /\ out.kind = "panic" => tableExists /\ AppliedVersions(ledger) = {}
        /\ Len(ledger) = 0 => out.kind = "panic"

\* C17 witness: a ledger with an applied record, reverted since, and no other
\* applied version: EnsureDBVersion panics
C17_Witness ==
    /\ out.kind = "panic"
    /\ Len(ledger) >= 2
    /\ \E i, j \in 1..Len(ledger) :
          /\ i < j
          /\ ledger[i].version = ledger[j].version
          /\ ledger[i].applied /\ ~ledger[j].applied

-----------------------------------------------------------------------------
(* Restart after a failure (checked under Spec) *)

\* C18 as stated: when a run to target T fails at some unit, the next run,
\* with the same T and the same discovered set, has the plan of the failed run
\* without the units committed before the failure, in the same order, in UP
\* runs and in DOWN runs.
C18_IdempotentRestart ==
    \A i \in Recent :
        (i - 1) \in RunIdx =>
            LET e1 == AllRuns[i - 1]
                e2 == AllRuns[i]
            IN  (Failed(e1) /\ e2.target = e1.target /\ e2.D = e1.D)
                    => e2.plan = SubSeq(e1.plan, e1.nexec + 1, Len(e1.plan))

-----------------------------------------------------------------------------
(* Discovery errors in a run (checked under Spec) *)

\* C19 as stated: a run that ends with a discovery error has not touched the
\* database: no ledger query, no creation of the ledger table and no seed
\* insert has happened in it.
C19_DiscoveryBeforeDatabase ==
    \A i \in 1..Len(log) :
        log[i].err = "discovery" =>
            /\ ~log[i].queried
            /\ ~log[i].created
            /\ (\A j \in 1..(i - 1) : log[j].err = "bootstrap") => log[i].base = 0

-----------------------------------------------------------------------------
(* Properties of discovery (checked under SpecDiscover) *)

\* file f resolves to version n
ResolvesTo(f, n) == NumericComponent(f).err = "none" /\ NumericComponent(f).n = n

\* the pairs of positions of files that resolve to one version
Duplicates ==
    {p \in (1..Len(files)) \X (1..Len(files)) :
        /\ p[1] < p[2]
        /\ NumericComponent(files[p[1]]).err = "none"
        /\ ResolvesTo(files[p[2]], NumericComponent(files[p[1]]).n)}

\* C20: a set returned by CollectMigrations has pairwise distinct versions;
\* when two files of the directory resolve to one version, CollectMigrations
\* returns no set and ends in a fatal error that names that version and the
\* two files.
C20_DistinctVersions ==
    /\ out.kind = "ok" =>
          /\ Duplicates = {}
          /\ \A i, j \in 1..Len(out.m) :
                 i # j => out.m[i].Version # out.m[j].Version
    /\ out.kind = "fatal" =>
          /\ \E p \in Duplicates :
                 /\ out.first = files[p[1]]
                 /\ out.second = files[p[2]]
          /\ ResolvesTo(out.first, out.version)
          /\ ResolvesTo(out.second, out.version)
          /\ out.first # out.second
    /\ (out # NoOut /\ Duplicates # {}) => out.kind = "fatal"

\* C20 witness: the first and the third file of a directory resolve to one
\* version, the second to another: discovery ends in the fatal error
C20_Witness ==
    /\ out.kind = "fatal"
    /\ Len(files) = 3
    /\ out.first = files[1] /\ out.second = files[3]
    /\ files[1].ext # files[3].ext
    /\ NumericComponent(files[2]).err = "none"
    /\ NumericComponent(files[2]).n # out.version

\* file f has a .sql or .go extension, an underscore and a numeric prefix that
\* is zero or negative
NonPositive(f) ==
    /\ f.ext \in {".sql", ".go"}
    /\ f.sep
    /\ f.prefix.digits
    /\ f.prefix.n <= 0

\* C21 as stated: when a file of the directory has a .sql or .go extension, an
\* underscore and a zero or negative numeric prefix, CollectMigrations fails
\* and returns no set.
C21_NonPositiveFails ==
    (out # NoOut /\ \E k \in 1..Len(files) : NonPositive(files[k]))
        => out.kind # "ok"

\* the base name of f has extension .sql or .go and a positive integer before
\* its first underscore
Matching(f) ==
    /\ f.ext \in {".sql", ".go"}
    /\ f.sep
    /\ f.prefix.digits
    /\ f.prefix.n > 0

\* C22: the set CollectMigrations returns has exactly one unit per file whose
\* base name has extension .sql or .go and a positive integer before the first
\* underscore, in the order of the walk, with that integer as Version, the
\* file as Source and IsApplied false; every other file is skipped without an
\* error, so that a directory without two files of one version always yields
\* a set.
C22_OneUnitPerMatchingFile ==
    LET fs == SelectSeq(files, Matching)
    IN  /\ out.kind = "ok" =>
              /\ Len(out.m) = Len(fs)
              /\ \A j \in 1..Len(fs) :
                     /\ out.m[j].Version = fs[j].prefix.n
                     /\ out.m[j].Source = fs[j]
                     /\ out.m[j].IsApplied = FALSE
        /\ (out # NoOut /\ \A i, j \in 1..Len(fs) :
                               i # j => fs[i].prefix.n # fs[j].prefix.n)
              => out.kind = "ok"

\* C22 witness: of three files one matches, one has another extension and one
\* has a prefix that is not a positive integer; the set holds the first only
C22_Witness ==
    /\ out.kind = "ok"
    /\ Len(files) = 3
    /\ Len(out.m) = 1
    /\ \E k \in 1..3 : files[k].ext = ".txt" /\ files[k].sep /\ files[k].prefix.n > 0
    /\ \E k \in 1..3 : files[k].ext # ".txt" /\ files[k].sep /\ ~Matching(files[k])

-----------------------------------------------------------------------------
(* The up command (checked under Spec) *)

\* invocation e is a run of the up command: its target is the most recent
\* version of its directory
UpCommand(e) ==
    /\ GetMostRecentDBVersion(e.D).err = "none"
    /\ e.target = GetMostRecentDBVersion(e.D).version

-----------------------------------------------------------------------------
(* Failing .go units and the end of a run (checked under Spec) *)

\* C24 as stated: a failing .go unit is treated as a failing .sql unit:
\* RunMigrationsOnDb returns an error to its caller for that unit, no later
\* unit is attempted and the units committed before it stay applied.
C24_GoFailureReturned ==
    \A i \in Recent :
        LET e == AllRuns[i]
        IN  (/\ Failed(e)
             /\ e.nexec < Len(e.plan)
             /\ e.plan[e.nexec + 1] \in GoUnits)
                => /\ e.err = "unit"
                   /\ Len(ledger) = e.base + e.nexec
                   /\ \A k \in 1..e.nexec :
                         ledger[e.base + k] =
                             Row(e.plan[k], e.direction, ledger[e.base + k].ts)

-----------------------------------------------------------------------------
(* Invocations that overlap (checked under SpecRace) *)

\* invocation p has read the ledger and planned
HasPlanned(p) == run[p].pc \in {"applying", "done", "failed"}

\* the units invocation p has executed
Executed(p) == {run[p].plan[k] : k \in 1..run[p].idx}

\* the records of version v inserted after the first n records
RecordsAfter(n, v) == {i \in (n + 1)..Len(ledger) : ledger[i].version = v}

\* C25: nothing excludes two invocations from one another: when both have
\* resolved the status from the same ledger, before either committed a unit,
\* equal targets and discovered sets give them equal plans, and a unit both
\* have applied has two applied records, one after the other among the
\* records of its version when nobody reverted it since.
C25_BothApply ==
    \A p, q \in Procs :
        (p # q /\ HasPlanned(p) /\ HasPlanned(q) /\ run[p].base = run[q].base) =>
            /\ (run[p].D = run[q].D /\ run[p].target = run[q].target) =>
                   /\ run[p].plan = run[q].plan
                   /\ run[p].direction = run[q].direction
            /\ \A v \in Executed(p) \cap Executed(q) :
                   (run[p].direction = DirectionUp /\ run[q].direction = DirectionUp) =>
                       LET recs == RecordsAfter(run[p].base, v)
                       IN  /\ Cardinality({i \in recs : ledger[i].applied}) >= 2
                           /\ (\A i \in recs : ledger[i].applied) =>
                                  \E i, j \in recs :
                                      /\ i < j
                                      /\ \A k \in recs : ~(i < k /\ k < j)

\* C25 witness: two invocations planned unit 1 from the same ledger while
\* neither had committed, both applied it, and the ledger holds two applied
\* records of version 1 next to one another
C25_Witness ==
    \E p, q \in Procs :
        /\ p # q
        /\ run[p].pc = "done" /\ run[q].pc = "done"
        /\ run[p].base = run[q].base
        /\ run[p].plan = <<1>> /\ run[q].plan = <<1>>
        /\ \E i \in 1..(Len(ledger) - 1) :
              /\ ledger[i] = Row(1, TRUE, ledger[i].ts)
              /\ ledger[i + 1] = Row(1, TRUE, ledger[i + 1].ts)

\* C26: a run ends in exactly one of two ways, Done (every planned unit
\* committed) or Failed (the error of one unit surfaced, that unit and the
\* later ones without record); every step of a run attempts the next unit of
\* the plan, which it either commits, moving on by one, or fails, ending the
\* run, so that each unit is attempted at most once, none is retried, and a
\* run of n units ends within n steps.
C26_DoneOrFailed ==
    /\ [](\A i \in Recent :
             LET e == AllRuns[i]
                 done == e.err = "none" /\ e.nexec = Len(e.plan)
                 failed == Failed(e) /\ e.nexec < Len(e.plan)
             IN  /\ e.err # "running" => (done \/ failed) /\ ~(done /\ failed)
                 /\ e.err = "running" => e.nexec < Len(e.plan))
    /\ [][run.pc = "applying" =>
             \/ /\ run'.pc = "idle"
                /\ Len(log') = Len(log) + 1
                /\ log'[Len(log')].nexec \in {run.idx, run.idx + 1}
             \/ /\ run'.pc = "applying"
                /\ run'.plan = run.plan
                /\ run'.idx = run.idx + 1
                /\ Len(log') = Len(log)]_vars

\* C26 witness: one run over three units has failed at its second unit, the
\* next has committed the two units of its plan
C26_Witness ==
    /\ Len(log) = 2 /\ run.pc = "idle"
    /\ log[1].err = "unit" /\ Len(log[1].plan) = 3 /\ log[1].nexec = 1
    /\ log[2].err = "none" /\ Len(log[2].plan) = 2 /\ log[2].nexec = 2

-----------------------------------------------------------------------------
(* Properties of findDBConf (checked under SpecConf) *)

\* the place of a candidate path in the order of preference
Rank(name) == CHOOSE i \in 1..Len(ConfPaths) : ConfPaths[i] = name

\* C27: findDBConf returns the configuration file of the nearest directory,
\* from the start directory up to the root, the root included, that has one of
\* dbconf.yaml, dbconf.yml, db/dbconf.yaml, db/dbconf.yml, the first of these
\* in this order that the directory has; it returns the empty string when no
\* directory of the path has one.
C27_NearestConf ==
    out.kind = "conf" =>
        LET having == {k \in 1..Len(files) : files[k].has # {}}
        IN  IF having = {}
            THEN ~out.found /\ out.name = ""
            ELSE /\ out.found
                 /\ out.dir = SetMax(having)
                 /\ out.name \in files[out.dir].has
                 /\ \A n \in files[out.dir].has : Rank(out.name) <= Rank(n)

\* C27 witness: the start directory, two levels below the root, and its parent
\* have no configuration file; the root has dbconf.yml and db/dbconf.yaml, and
\* dbconf.yml of the root is returned
C27_Witness ==
    /\ out.kind = "conf" /\ out.found
    /\ Len(files) = 3
    /\ files[3].has = {} /\ files[2].has = {}
    /\ files[1].has = {"dbconf.yml", "db/dbconf.yaml"}
    /\ out.dir = 1 /\ out.name = "dbconf.yml"

(***************************************************************************)
(* Properties of NewDBConf.                                                *)
(***************************************************************************)
\* the key of the file that decides a setting: the one scoped by the
\* environment if the file has it, else the top-level one
Setting(name) ==
    IF files.env # "" /\ files.scoped[name].set THEN files.scoped[name]
    ELSE files.top[name]

\* the import and the dialect that the built-in table gives a driver name
BuiltIn(base) ==
    IF base \in {"postgres", "PoStGrEs"}
    THEN [Import |-> "github.com/lib/pq", Dialect |-> "postgres"]
    ELSE IF base = "redshift"
    THEN [Import |-> "github.com/lib/pq", Dialect |-> "redshift"]
    ELSE [Import |-> "", Dialect |-> "nil"]

\* the import that the precedence of the settings gives the driver
ExpectedImport ==
    LET drv == Setting("driver").v
    IN  IF Setting("import").set /\ Setting("import").v # ""
        THEN Setting("import").v
        ELSE IF drv.prefix # "" THEN drv.prefix \o drv.base
        ELSE BuiltIn(drv.base).Import

\* the dialect that the precedence of the settings gives the driver
ExpectedDialect ==
    IF Setting("dialect").set /\ Setting("dialect").v # ""
    THEN dialectByName(Setting("dialect").v)
    ELSE BuiltIn(Setting("driver").v.base).Dialect

\* C28: NewDBConf resolves each setting by the key scoped by the environment
\* before the top-level key; the driver's import is the import setting if
\* it is not empty, else the import path given as the driver, else the
\* built-in one of the driver name whatever its case; a dialect setting
\* that is not empty replaces the built-in dialect; and NewDBConf fails
\* when the driver so resolved has no import or no dialect.
C28_Precedence ==
    out.kind = "dbconf" =>
        /\ (Setting("driver").set /\ (ExpectedImport = "" \/ ExpectedDialect = "nil"))
              => out.err = "invalid"
        /\ out.err = "none" =>
              /\ Setting("driver").set
              /\ out.Driver.Import = ExpectedImport
              /\ out.Driver.Dialect = ExpectedDialect
              /\ out.Driver.OpenStr =
                    (IF Setting("open").set THEN Setting("open").v ELSE "")

\* a file in which the environment scopes an import and a dialect that differ
\* from the top-level ones, for a driver written in mixed case, resolved
C28_Witness ==
    /\ out.kind = "dbconf"
    /\ out.err = "none"
    /\ files.env # ""
    /\ files.top.driver = Present([prefix |-> "", base |-> "PoStGrEs"])
    /\ files.scoped.import = Present("github.com/custom/pq")
    /\ files.top.import = Present("")
    /\ files.scoped.dialect = Present("sqlite3")
    /\ ~files.top.dialect.set
    /\ out.Driver.Import = "github.com/custom/pq"
    /\ out.Driver.Dialect = "sqlite3"

\* C29: after a run to target T succeeds, T being 0 or the version of a
\* discovered unit, a following EnsureDBVersion returns T.
C29_ReachesTarget ==
    \A i \in Recent :
        LET e == AllRuns[i]
        IN  (e.err = "none" /\ (e.target = 0 \/ e.target \in e.D))
                => EnsureDBVersion(dbVersionQuery(LedgerAfter(e)))
                       = [kind |-> "ok", version |-> e.target]

\* the timestamps of the rows of l do not decrease in insertion order
NonDecreasing(l) == \A i \in 1..Len(l), j \in 1..Len(l) : i < j => l[i].ts <= l[j].ts

\* C30: on the ledgers the engine produces, whose timestamps do not decrease
\* in insertion order, a version v > 0 that EnsureDBVersion returns is
\* resolved as applied by getMigrationsStatus for every discovered set that
\* holds v.
C30_VersionAndStatusAgree ==
    (tableExists /\ NonDecreasing(ledger)) =>
        LET found == EnsureDBVersion(dbVersionQuery(ledger))
        IN  (found.kind = "ok" /\ found.version > 0) =>
                \A D \in {d \in SUBSET Versions : found.version \in d} :
                    getMigrationsStatus(TRUE, dbVersionQuery(ledger), D)
                        [found.version].IsApplied

\* a unit applied, reverted and applied again, the last two records within
\* the same tick of the clock, is the current version and is read as applied
C30_Witness ==
    /\ run.pc = "idle"
    /\ \E i \in 1..Len(ledger), j \in 1..Len(ledger), k \in 1..Len(ledger) :
          /\ i < j /\ j < k /\ k = Len(ledger)
          /\ ledger[i].version = ledger[k].version
          /\ ledger[j].version = ledger[k].version
          /\ ledger[k].version > 0
          /\ ledger[i].applied /\ ~ledger[j].applied /\ ledger[k].applied
          /\ ledger[i].ts < ledger[j].ts /\ ledger[j].ts = ledger[k].ts
          /\ EnsureDBVersion(dbVersionQuery(ledger))
                = [kind |-> "ok", version |-> ledger[k].version]
          /\ getMigrationsStatus(TRUE, dbVersionQuery(ledger), {ledger[k].version})
                [ledger[k].version].IsApplied

\* C31: on the ledgers the engine produces, whatever the targets (0 and
\* negative ones too) and the discovered sets of its runs, the seed record
\* (0, applied) stays the most recent record of version 0, and
\* EnsureDBVersion never ends in its failure for a ledger with no applied
\* record.
C31_SeedStays ==
    tableExists =>
        /\ HeadIdx(ledger, 0) = 1
        /\ ledger[1].applied
        /\ EnsureDBVersion(dbVersionQuery(ledger)).kind = "ok"
        /\ run.pc # "panic"

\* a run up, a run down to a negative target that reverts a unit, and a run
\* that fails, after which EnsureDBVersion returns a version
C31_Witness ==
    /\ run.pc = "idle"
    /\ Len(log) = 3
    /\ RunIdx = {1, 2, 3}
    /\ log[1].direction = DirectionUp /\ log[1].err = "none" /\ log[1].nexec > 0
    /\ log[2].target < 0 /\ log[2].direction = DirectionDown
    /\ log[2].err = "none" /\ log[2].nexec > 0
    /\ Failed(log[3])
    /\ EnsureDBVersion(dbVersionQuery(ledger)).kind = "ok"

\* the positions in l of the records of version v
PositionsOf(l, v) == {i \in 1..Len(l) : l[i].version = v}

\* C32: in the ledger of runs that follow one another, with timestamps that
\* do not decrease in insertion order, the records of each unit alternate
\* applied, reverted, applied, ..., the first being applied: a unit is never
\* applied while its most recent record is applied, nor reverted while its
\* most recent record is reverted or missing.
C32_Alternate ==
    NonDecreasing(ledger) =>
        \A v \in Versions :
            \A i \in PositionsOf(ledger, v) :
                LET before == {j \in PositionsOf(ledger, v) : j < i}
                IN  ledger[i].applied =
                        (before = {} \/ ~ledger[SetMax(before)].applied)

\* a unit with three records or more after three runs
C32_Witness ==
    /\ run.pc = "idle"
    /\ RunIdx = {1, 2, 3}
    /\ \E v \in Versions :
          /\ Cardinality(PositionsOf(ledger, v)) >= 3
          /\ \A i \in 1..3 : v \in Range(log[i].plan) /\ log[i].err = "none"
          /\ log[1].direction = DirectionUp
          /\ log[2].direction = DirectionDown
          /\ log[3].direction = DirectionUp

\* C33: when the timestamps of the ledger do not decrease in insertion order
\* (equal ones allowed) and the rows are read by id descending, the status
\* getMigrationsStatus resolves for each unit that has a record is the flag
\* of the unit's most recently inserted record; among records of one version
\* with one timestamp the one inserted last decides.
C33_TimestampIsInsertionOrder ==
    (out.kind = "status" /\ tableExists /\ NonDecreasing(ledger)) =>
        \A v \in out.D :
            HeadIdx(ledger, v) > 0 =>
                /\ out.mm[v].IsApplied = ledger[HeadIdx(ledger, v)].applied
                /\ out.mm[v].TStamp = ledger[HeadIdx(ledger, v)].ts

\* a unit whose two newest records share a timestamp and differ in the flag,
\* after an older record, resolved by the newest
C33_Witness ==
    /\ out.kind = "status"
    /\ tableExists
    /\ NonDecreasing(ledger)
    /\ Len(ledger) = 3
    /\ \E v \in out.D :
          /\ \A i \in 1..3 : ledger[i].version = v
          /\ ledger[1].ts < ledger[2].ts
          /\ ledger[2].ts = ledger[3].ts
          /\ ledger[2].applied # ledger[3].applied
          /\ out.mm[v].IsApplied = ledger[3].applied

\* C34: a run changes only units of its plan: an UP run leaves the resolved
\* status of every unit above its target as it was, a DOWN run that of every
\* unit below its target; the records one run writes carry one flag; and no
\* record is written for a version outside the discovered set of the run.
C34_Frame ==
    \A i \in Recent :
        LET e == AllRuns[i]
            w == Written(e)
        IN  /\ \A v \in 0..MaxVersion :
                  ((e.direction = DirectionUp /\ v > e.target)
                   \/ (e.direction = DirectionDown /\ v < e.target)
                   \/ v \notin Range(e.plan))
                      => /\ Resolved(LedgerAfter(e), v) = Resolved(LedgerAt(e), v)
                         /\ HeadIdx(LedgerAfter(e), v) = HeadIdx(LedgerAt(e), v)
            /\ \A k, m \in 1..Len(w) : w[k].applied = w[m].applied
            /\ \A k \in 1..Len(w) : w[k].version \in e.D

\* an UP run that leaves the unit above its target not applied and, once that
\* unit is applied, a DOWN run that leaves the unit below its target applied
C34_Witness ==
    /\ run.pc = "idle"
    /\ RunIdx = {1, 2, 3}
    /\ Len(log) = 3
    /\ \A i \in 1..3 : log[i].err = "none" /\ log[i].nexec = 1
    /\ log[1].D = {1, MaxVersion} /\ log[1].target = 1
    /\ log[1].direction = DirectionUp
    /\ ~Resolved(LedgerAfter(log[1]), MaxVersion)
    /\ log[2].target = MaxVersion /\ log[2].direction = DirectionUp
    /\ log[3].D = {1, MaxVersion} /\ log[3].target = 2
    /\ log[3].direction = DirectionDown
    /\ Resolved(ledger, 1)
    /\ ~Resolved(ledger, MaxVersion)

(***************************************************************************)
(* Properties of GetPreviousDBVersion.                                     *)
(***************************************************************************)
\* the versions of the regular files of the walk that name a migration
DiscoveredIn(fs) ==
    {NumericComponent(fs[i]).n :
        i \in {k \in 1..Len(fs) : ~fs[k].dir /\ NumericComponent(fs[k]).err = "none"}}

\* C35: GetPreviousDBVersion(dir, v) returns the greatest discovered version
\* below v; when no discovered version is below v it returns 0 with no error
\* if v is a discovered version, and fails with ErrNoPreviousVersion if not.
C35_Previous ==
    out.kind = "previous" =>
        LET D == DiscoveredIn(files.entries)
            below == {w \in D : w < files.version}
        IN  IF below # {}
            THEN out.err = "none" /\ out.previous = SetMax(below)
            ELSE IF files.version \in D
                 THEN out.err = "none" /\ out.previous = 0
                 ELSE out.err = "ErrNoPreviousVersion"

\* two versions below the given one, the greater visited first, the greater
\* returned
C35_Witness ==
    /\ out.kind = "previous"
    /\ out.err = "none"
    /\ Len(files.entries) = 2
    /\ NumericComponent(files.entries[1]).err = "none"
    /\ NumericComponent(files.entries[2]).err = "none"
    /\ ~files.entries[1].dir /\ ~files.entries[2].dir
    /\ NumericComponent(files.entries[1]).n > NumericComponent(files.entries[2]).n
    /\ NumericComponent(files.entries[1]).n < files.version
    /\ out.previous = NumericComponent(files.entries[1]).n

====
